---- MODULE Spec2Model ----
(***************************************************************************)
(* Request-resilience layer of motion-ui-mcp-server: the CircuitBreaker    *)
(* of src/utils/circuit-breaker.ts and the TTL Cache of src/utils/cache.ts. *)
(*                                                                         *)
(* JavaScript runs one turn at a time: the synchronous part of execute()   *)
(* up to `await operation()` is one atomic step, and the continuation      *)
(* after the await (onSuccess / onFailure) is another.  Several execute()  *)
(* calls may be suspended at the await at the same time.                   *)
(***************************************************************************)
EXTENDS Integers, FiniteSets, Sequences, TLC

\* ------------------------------------------------------------------ bounds
NumCallers   == 2   \* concurrent callers of execute()
MaxThreshold == 2   \* failureThreshold is drawn from 1..MaxThreshold
MaxTimeout   == 2   \* timeout is drawn from 1..MaxTimeout
MaxTime      == 5   \* the breaker clock runs from 1 to MaxTime
MaxCalls     == 5   \* wrapped operations invoked in one behaviour

Callers == 1..NumCallers

\* ------------------------------------------------------------ error values
NoError == [name |-> "none", message |-> ""]

\* circuit-breaker.ts:20  throw new Error('Circuit breaker is OPEN')
CircuitOpenError == [name |-> "Error", message |-> "Circuit breaker is OPEN"]

\* What a wrapped operation may reject with: any JavaScript error, among
\* them a plain Error (for instance the error of a breaker nested inside
\* the operation) and an error of a class of its own.
OperationErrors ==
    { [name |-> "Error",      message |-> "Circuit breaker is OPEN"],
      [name |-> "AxiosError", message |-> "Network Error"] }

\* The kind of an error is its class; the message is free text.
ErrorKind(e) == e.name

VARIABLES
    \* CircuitBreaker fields
    state, failures, lastFailTime, failureThreshold, timeout,
    \* Date.now()
    now,
    \* execute() calls: "idle" or suspended at `await operation()`
    pc,
    \* number of times a wrapped operation has been invoked
    callCount,
    \* history: how each suspended call was admitted
    admit,
    \* history: failures completed so far in a run made only of failing
    \* calls executed one at a time on the fresh breaker; -1 once the run
    \* is over
    seqFailRun,
    \* history: completed failures since the last completed success
    consecFails,
    \* history: the last step taken, with the breaker as it was before it
    ev,
    \* Cache fields (see the cache section)
    cache,
    \* history of the cache
    lastSet, cev,
    \* the setInterval timer of cache.ts: the instant its next firing is due
    nextCleanup,
    \* the process: "running", or "stopping" once it has been asked to exit
    lifecycle,
    \* history: the last tool-handler call, and how many calls were made
    hev, invocations,
    \* sanitizeObject: the value given, and the results of applying it once
    \* and once more
    sin, sout,
    \* circuitBreakers: the fields of each instance, the suspended call of
    \* each, and the last step taken through one of them
    instances, iev,
    \* handler invocations in progress, and the last step of one
    task, tev,
    \* outcome of the last validateAndSanitizeParams call
    vout

breakerVars == <<state, failures, lastFailTime, failureThreshold, timeout,
                 pc, callCount, admit, seqFailRun, consecFails, ev>>
cacheVars   == <<cache, lastSet, cev, nextCleanup, lifecycle>>
handlerVars == <<hev, invocations>>
asyncVars   == <<task, tev, vout>>
utilVars    == <<sin, sout, instances, iev, asyncVars>>
vars        == <<breakerVars, now, cacheVars, handlerVars, utilVars>>

\* no handler invocation in progress, validateAndSanitizeParams not called
AsyncStart ==
    /\ task = [c \in Callers |-> [pc |-> "idle"]]
    /\ tev = [op |-> "init"]
    /\ vout = <<>>

\* ------------------------------------------------------- CircuitBreaker
this == [state |-> state, failures |-> failures, lastFailTime |-> lastFailTime]

\* A gate that lets the call through one time unit early.
GateRejects_Early(st, t, last, to) == st = "OPEN" /\ t - last + 1 < to

\* A gate that still rejects when exactly the timeout has elapsed.
GateRejects_Inclusive(st, t, last, to) == st = "OPEN" /\ t - last <= to

\* execute(), lines 18-20: reject while OPEN and the timeout has not elapsed
GateRejects(st, t, last, to) == st = "OPEN" /\ t - last < to

\* execute(), lines 21-24: an OPEN breaker whose timeout elapsed goes HALF_OPEN
AfterGate(st) == IF st = "OPEN" THEN "HALF_OPEN" ELSE st

\* An onSuccess that forgets to reset the failure counter.
onSuccess_NoReset(b) ==
    [b EXCEPT !.state = IF b.state = "HALF_OPEN" THEN "CLOSED" ELSE b.state]

onSuccess(b) ==
    [b EXCEPT !.failures = 0,
              !.state = IF b.state = "HALF_OPEN" THEN "CLOSED" ELSE b.state]

\* An onFailure that opens one failure late.
onFailure_Late(b, t, threshold) ==
    [b EXCEPT !.failures = b.failures + 1,
              !.lastFailTime = t,
              !.state = IF b.failures + 1 > threshold THEN "OPEN" ELSE b.state]

onFailure(b, t, threshold) ==
    [b EXCEPT !.failures = b.failures + 1,
              !.lastFailTime = t,
              !.state = IF b.failures + 1 >= threshold THEN "OPEN" ELSE b.state]

\* A rejection that restarts the open window.
FailFast_Extends(b, t) == [b EXCEPT !.lastFailTime = t]

\* execute(), line 20: the throw of a rejected call, reached before any
\* assignment to a field
FailFast(b, t) == b

Awaiting == {c \in Callers : pc[c] = "awaiting"}

Event(op, c, invoked, err, how) ==
    [op |-> op, c |-> c, invoked |-> invoked, err |-> err, how |-> how,
     preState |-> state, preFailures |-> failures,
     preLastFailTime |-> lastFailTime, preRun |-> seqFailRun,
     preCallCount |-> callCount,
     preTrial |-> \E x \in Callers : admit[x] = "TRIAL",
     preAwaiting |-> Cardinality(Awaiting), at |-> now]

CacheIdle == UNCHANGED <<cacheVars, handlerVars, utilVars>>

\* execute(), synchronous part: the gate, then operation() is invoked and
\* the call suspends at the await.
Execute(c) ==
    /\ pc[c] = "idle"
    /\ IF GateRejects(state, now, lastFailTime, timeout)
       THEN /\ LET b == FailFast(this, now) IN
                    /\ state' = b.state
                    /\ failures' = b.failures
                    /\ lastFailTime' = b.lastFailTime
            /\ ev' = Event("execute", c, FALSE, CircuitOpenError, "rejected")
            /\ UNCHANGED <<pc, callCount, admit, seqFailRun, consecFails>>
       ELSE /\ callCount < MaxCalls
            /\ state' = AfterGate(state)
            /\ callCount' = callCount + 1
            /\ pc' = [pc EXCEPT ![c] = "awaiting"]
            /\ admit' = [admit EXCEPT ![c] =
                            IF state = "OPEN" THEN "TRIAL" ELSE state]
            /\ seqFailRun' = IF /\ seqFailRun >= 0
                                /\ seqFailRun < failureThreshold
                                /\ Awaiting = {}
                             THEN seqFailRun ELSE -1
            /\ ev' = Event("execute", c, TRUE, NoError, "pending")
            /\ UNCHANGED <<failures, lastFailTime, consecFails>>
    /\ UNCHANGED <<failureThreshold, timeout, now>>
    /\ CacheIdle

\* execute(), lines 28-30: the awaited operation resolved.
OperationResolves(c) ==
    /\ pc[c] = "awaiting"
    /\ LET b == onSuccess(this) IN
        /\ state' = b.state
        /\ failures' = b.failures
        /\ lastFailTime' = b.lastFailTime
    /\ pc' = [pc EXCEPT ![c] = "idle"]
    /\ admit' = [admit EXCEPT ![c] = "none"]
    /\ seqFailRun' = -1
    /\ consecFails' = 0
    /\ ev' = Event("settle", c, FALSE, NoError, admit[c])
    /\ UNCHANGED <<failureThreshold, timeout, now, callCount>>
    /\ CacheIdle

\* execute(), lines 31-34: the awaited operation rejected with e.
OperationRejects(c, e) ==
    /\ pc[c] = "awaiting"
    /\ LET b == onFailure(this, now, failureThreshold) IN
        /\ state' = b.state
        /\ failures' = b.failures
        /\ lastFailTime' = b.lastFailTime
    /\ pc' = [pc EXCEPT ![c] = "idle"]
    /\ admit' = [admit EXCEPT ![c] = "none"]
    /\ seqFailRun' = IF seqFailRun >= 0 THEN seqFailRun + 1 ELSE -1
    /\ consecFails' = consecFails + 1
    /\ ev' = Event("settle", c, FALSE, e, admit[c])
    /\ UNCHANGED <<failureThreshold, timeout, now, callCount>>
    /\ CacheIdle

\* Date.now() advances between turns.
BreakerTick ==
    /\ now < MaxTime
    /\ now' = now + 1
    /\ ev' = Event("tick", 0, FALSE, NoError, "none")
    /\ UNCHANGED <<state, failures, lastFailTime, failureThreshold, timeout,
                   pc, callCount, admit, seqFailRun, consecFails>>
    /\ CacheIdle

\* A getState() that refreshes the stored state from the clock before
\* returning it: the lazy OPEN -> HALF_OPEN check moved into the read.
getState_Refreshing ==
    /\ state' = IF state = "OPEN" /\ ~GateRejects(state, now, lastFailTime, timeout)
                THEN "HALF_OPEN" ELSE state
    /\ ev' = Event("getState", 0, FALSE, NoError, state')
    /\ UNCHANGED <<failures, lastFailTime, failureThreshold, timeout, now,
                   pc, callCount, admit, seqFailRun, consecFails>>
    /\ CacheIdle

\* getState(), lines 55-57: returns this.state (recorded in ev.how)
getState ==
    /\ ev' = Event("getState", 0, FALSE, NoError, state)
    /\ UNCHANGED <<state, failures, lastFailTime, failureThreshold, timeout, now,
                   pc, callCount, admit, seqFailRun, consecFails>>
    /\ CacheIdle

\* getFailures(), lines 59-61: returns this.failures (ev.preFailures)
getFailures ==
    /\ ev' = Event("getFailures", 0, FALSE, NoError, "none")
    /\ UNCHANGED <<state, failures, lastFailTime, failureThreshold, timeout, now,
                   pc, callCount, admit, seqFailRun, consecFails>>
    /\ CacheIdle

\* new CircuitBreaker(failureThreshold, timeout), lines 7-15
BreakerInit ==
    /\ state = "CLOSED"
    /\ failures = 0
    /\ lastFailTime = 0
    /\ failureThreshold \in 1..MaxThreshold
    /\ timeout \in 1..MaxTimeout
    /\ now = 1
    /\ pc = [c \in Callers |-> "idle"]
    /\ callCount = 0
    /\ admit = [c \in Callers |-> "none"]
    /\ seqFailRun = 0
    /\ consecFails = 0
    /\ ev = [op |-> "init", c |-> 0, invoked |-> FALSE, err |-> NoError,
             how |-> "none", preState |-> "CLOSED", preFailures |-> 0,
             preLastFailTime |-> 0, preRun |-> 0, preCallCount |-> 0,
             preTrial |-> FALSE, preAwaiting |-> 0, at |-> 1]
    /\ cache = <<>>
    /\ lastSet = <<>>
    /\ cev = <<>>
    /\ nextCleanup = 0
    /\ lifecycle = "running"
    /\ hev = [op |-> "init"]
    /\ invocations = 0
    /\ sin = <<>>
    /\ sout = <<>>
    /\ AsyncStart
    /\ instances = <<>>
    /\ iev = [op |-> "init"]

BreakerNext ==
    \/ \E c \in Callers : Execute(c)
    \/ \E c \in Callers : OperationResolves(c)
    \/ \E c \in Callers, e \in OperationErrors : OperationRejects(c, e)
    \/ BreakerTick
    \/ getState
    \/ getFailures

BreakerSpec == BreakerInit /\ [][BreakerNext]_vars

\* ---------------------------------------------------- breaker properties
Elapsed == ev.at - ev.preLastFailTime

\* C1: on a fresh breaker with failureThreshold = N and calls executed one
\* at a time, the breaker is CLOSED after fewer than N consecutive failures
\* and OPEN after the N-th; a call made immediately afterwards fails with
\* the circuit-open error and the operation is not invoked (call count N).
C1_OpensAtThreshold ==
    /\ (seqFailRun >= 0 /\ seqFailRun < failureThreshold) => state = "CLOSED"
    /\ seqFailRun = failureThreshold =>
          state = "OPEN" /\ callCount = failureThreshold
    /\ (ev.op = "execute" /\ ev.preRun = failureThreshold /\ Elapsed = 0) =>
          /\ ev.err = CircuitOpenError
          /\ ~ev.invoked
          /\ callCount = failureThreshold

C1_Witness ==
    /\ failureThreshold = 2
    /\ ev.op = "execute" /\ ev.preRun = 2 /\ Elapsed = 0
    /\ ev.err = CircuitOpenError /\ callCount = 2

\* C2: an execute call that arrives while the state is OPEN and
\* now - lastFailTime < timeout fails immediately and the operation is not
\* invoked, whatever calls are in flight.
C2_OpenFailsFast ==
    (ev.op = "execute" /\ ev.preState = "OPEN" /\ Elapsed < timeout) =>
        /\ ev.err = CircuitOpenError
        /\ ~ev.invoked
        /\ callCount = ev.preCallCount
        /\ pc[ev.c] = "idle"

C2_Witness ==
    /\ ev.op = "execute" /\ ev.preState = "OPEN" /\ Elapsed < timeout
    /\ ev.preAwaiting >= 1
    /\ ev.err = CircuitOpenError

\* C3: when the breaker is OPEN and at least timeout has elapsed, the next
\* execute call moves the state to HALF_OPEN and invokes the operation; if
\* that trial operation succeeds, the state becomes CLOSED and failures is
\* reset to 0.
C3_TrialSuccessCloses ==
    /\ (ev.op = "execute" /\ ev.preState = "OPEN" /\ Elapsed >= timeout) =>
          state = "HALF_OPEN" /\ ev.invoked
    /\ (ev.op = "settle" /\ ev.how = "TRIAL" /\ ev.err = NoError) =>
          state = "CLOSED" /\ failures = 0

\* C4: whenever a trial operation admitted in HALF_OPEN fails, failures is
\* incremented and is still >= failureThreshold, lastFailTime is set to now
\* and the breaker gates as OPEN again, so an immediately following call
\* fails fast.
C4_TrialFailureReopens ==
    (ev.op = "settle" /\ ev.how = "TRIAL" /\ ev.err # NoError) =>
        /\ failures = ev.preFailures + 1
        /\ failures >= failureThreshold
        /\ lastFailTime = now
        /\ GateRejects(state, now, lastFailTime, timeout)

\* C5: while the breaker is HALF_OPEN exactly one trial operation is let
\* through: an execute call arriving in HALF_OPEN while a trial operation
\* is still awaiting its result does not invoke its operation.
C5_OneTrialInHalfOpen ==
    (ev.op = "execute" /\ ev.preState = "HALF_OPEN" /\ ev.preTrial) =>
        ~ev.invoked /\ callCount = ev.preCallCount

\* C6: the OPEN to HALF_OPEN transition happens only inside an execute call
\* and exactly when now - lastFailTime >= timeout: a call at elapsed time
\* equal to timeout is attempted, a call one time unit earlier is rejected,
\* and the passage of time alone never moves the breaker out of OPEN.
C6_LazyHalfOpen ==
    /\ (ev.preState = "OPEN" /\ state # "OPEN") =>
          ev.op = "execute" /\ state = "HALF_OPEN" /\ Elapsed >= timeout
    /\ (ev.op = "execute" /\ ev.preState = "OPEN" /\ Elapsed = timeout) =>
          state = "HALF_OPEN" /\ ev.invoked
    /\ (ev.op = "execute" /\ ev.preState = "OPEN" /\ Elapsed = timeout - 1) =>
          state = "OPEN" /\ ~ev.invoked /\ ev.err = CircuitOpenError
    /\ ev.op = "tick" => state = ev.preState

C6_Witness ==
    /\ ev.op = "execute" /\ ev.preState = "OPEN" /\ Elapsed = timeout
    /\ timeout = 2
    /\ state = "HALF_OPEN" /\ ev.invoked

\* C7: in CLOSED every completed failure increments failures by one and
\* sets lastFailTime to now, and every completed success sets failures to
\* 0; the breaker leaves CLOSED only when failureThreshold failures have
\* completed with no success completing between them.
C7_ClosedCounting ==
    /\ (ev.op = "settle" /\ ev.preState = "CLOSED" /\ ev.err # NoError) =>
          failures = ev.preFailures + 1 /\ lastFailTime = now
    /\ (ev.op = "settle" /\ ev.preState = "CLOSED" /\ ev.err = NoError) =>
          failures = 0
    /\ state = "CLOSED" => failures = consecFails
    /\ (ev.preState = "CLOSED" /\ state # "CLOSED") =>
          /\ ev.op = "settle" /\ ev.err # NoError
          /\ state = "OPEN"
          /\ consecFails = failureThreshold

C7_Witness ==
    /\ ev.preState = "CLOSED" /\ state = "OPEN"
    /\ failureThreshold = 2 /\ consecFails = 2
    /\ ev.preAwaiting = 2

\* C8: when the wrapped operation fails, execute first records the failure
\* and then fails with the operation's own error; a state-gated rejection
\* fails with a circuit-open error that is of a different kind from any
\* wrapped-operation failure, and is raised without recording a failure.
C8_DistinctErrorKinds ==
    /\ (ev.op = "settle" /\ ev.err # NoError) =>
          /\ failures = ev.preFailures + 1 /\ lastFailTime = now
          /\ ErrorKind(ev.err) # ErrorKind(CircuitOpenError)
    /\ ev.how = "rejected" =>
          /\ ev.err = CircuitOpenError
          /\ failures = ev.preFailures
          /\ lastFailTime = ev.preLastFailTime
          /\ state = ev.preState

\* C31: state, failures and lastFailTime change only inside execute, either
\* when an awaited operation settles or by the lazy OPEN -> HALF_OPEN check
\* of an admitted call; getState(), getFailures() and the passage of time
\* leave all three unchanged, and no breaker step changes the cache.
C31_FieldsChangeOnlyInExecute ==
    [][ /\ this' # this =>
              \/ ev'.op = "settle"
              \/ /\ ev'.op = "execute" /\ ev'.invoked
                 /\ state = "OPEN" /\ state' = "HALF_OPEN"
                 /\ failures' = failures /\ lastFailTime' = lastFailTime
        /\ ev'.op \in {"getState", "getFailures", "tick"} => this' = this
        /\ ev'.op = "getState" => ev'.how = state
        /\ cache' = cache /\ lastSet' = lastSet ]_vars

C31_Witness ==
    /\ ev.op = "getState" /\ ev.how = "OPEN"
    /\ state = "OPEN" /\ now - lastFailTime >= timeout
    /\ failures >= failureThreshold

\* C33: in every reachable breaker state, with operations in flight that
\* were started in CLOSED, after the OPEN timeout or in HALF_OPEN,
\* failures >= 0, and failures >= failureThreshold whenever state is OPEN.
C33_OpenImpliesThresholdReached ==
    /\ failures >= 0
    /\ state = "OPEN" => failures >= failureThreshold

\* C35: a call rejected because the breaker is OPEN within its timeout
\* leaves state, failures and lastFailTime unchanged, so rejected calls
\* never extend the open window: a call made timeout after the last
\* recorded operation failure is attempted, as the trial, however many
\* calls were rejected in between, and no call is attempted earlier.
C35_RejectionKeepsWindow ==
    /\ ev.how = "rejected" =>
          /\ state = ev.preState /\ state = "OPEN"
          /\ failures = ev.preFailures
          /\ lastFailTime = ev.preLastFailTime
    /\ (ev.op = "execute" /\ ev.preState = "OPEN" /\ ev.preCallCount < MaxCalls) =>
          /\ ev.invoked <=> Elapsed >= timeout
          /\ ev.invoked => state = "HALF_OPEN" /\ admit[ev.c] = "TRIAL"

\* a call rejected at the last instant of the open window, with another
\* operation still in flight
C35_Witness ==
    /\ ev.op = "execute" /\ ev.how = "rejected" /\ ev.preState = "OPEN"
    /\ timeout = 2 /\ Elapsed = timeout - 1
    /\ ev.preAwaiting >= 1

\* ---- recovery
\* Operations fail only while a later recovery still fits in the modelled
\* horizon (time for the OPEN timeout to elapse and one more operation
\* left); from then on every attempted operation succeeds.
MayStillFail == now + timeout <= MaxTime /\ callCount < MaxCalls

OperationRejectsEarly(c, e) == MayStillFail /\ OperationRejects(c, e)

RecoveryNext ==
    \/ \E c \in Callers : Execute(c)
    \/ \E c \in Callers : OperationResolves(c)
    \/ \E c \in Callers, e \in OperationErrors : OperationRejectsEarly(c, e)
    \/ BreakerTick

\* execute calls keep arriving, awaited operations settle, time advances
RecoverySpec ==
    /\ BreakerInit /\ [][RecoveryNext]_vars
    /\ WF_vars(\E c \in Callers : Execute(c))
    /\ \A c \in Callers : WF_vars(OperationResolves(c))
    /\ WF_vars(BreakerTick)

\* once every attempted operation succeeds, the breaker eventually is
\* CLOSED with failures = 0
EventuallyClosed == ~MayStillFail ~> (state = "CLOSED" /\ failures = 0)

\* when an operation is attempted in HALF_OPEN right after another one
\* was attempted, the two attempts are at least timeout apart
TrialsSpaced ==
    (/\ ev.op = "execute" /\ ev.invoked
     /\ state = "HALF_OPEN"
     /\ ev'.op = "execute" /\ ev'.invoked)
    => ev'.at - ev.at >= timeout

\* a call made timeout after the last failure is always attempted
NoBackoff ==
    (ev.op = "execute" /\ ev.preState = "OPEN"
      /\ Elapsed >= timeout /\ ev.preCallCount < MaxCalls) => ev.invoked

\* C34: if from some point on every attempted operation succeeds while
\* execute calls keep arriving and time advances, the breaker eventually
\* reaches CLOSED with failures = 0; and while trials fail, consecutive
\* attempted operations are at least timeout apart, with no backoff.
C34_RecoversAndSpacesTrials ==
    EventuallyClosed /\ [][TrialsSpaced]_vars /\ []NoBackoff

\* -------------------------------------------------------------- TTL Cache
MaxInstant == 2   \* instants sampled on each side of the default ttl

\* cache.ts:14  private defaultTTL: number = 300000
defaultTTL == 300000

\* cache.ts:98-100  setInterval(() => { cache.cleanup(); }, 60000)
cleanupInterval == 60000

Keys   == {"k1", "k2"}
Null   == "null"
Values == {"v1", "v2", Null}

\* The optional ttl argument of set(): <<>> when omitted, <<n>> when given.
TtlArgs == {<<>>, <<0>>, <<1>>}

\* Date.now() at the turns the model observes: just after start and just
\* after one default ttl has gone by.
Instants == (1..MaxInstant) \cup {defaultTTL + i : i \in 1..MaxInstant}

Remove(m, k) == [x \in DOMAIN m \ {k} |-> m[x]]

\* A size() that counts only the entries that are still live.
size_LiveOnly ==
    Cardinality({k \in DOMAIN cache : now - cache[k].timestamp <= cache[k].ttl})

\* size(), lines 73-75
size == Cardinality(DOMAIN cache)

\* set(), line 20:  ttl || this.defaultTTL  (0 is falsy)
StoredTtl(arg) == IF arg # <<>> /\ arg[1] # 0 THEN arg[1] ELSE defaultTTL

\* set(), lines 17-23
SetStore(m, k, v, arg, t) ==
    [x \in DOMAIN m \cup {k} |->
        IF x = k THEN [data |-> v, timestamp |-> t, ttl |-> StoredTtl(arg)]
                 ELSE m[x]]

\* get() line 35, has() line 51, cleanup() line 83
isExpired(e, t) == t - e.timestamp > e.ttl

\* A get() that reports an expired entry absent but leaves it stored.
GetStore_NoDelete(m, k, t) == m

\* get(), lines 28-45: the store after the call
GetStore(m, k, t) ==
    IF k \in DOMAIN m /\ isExpired(m[k], t) THEN Remove(m, k) ELSE m

\* get(), lines 28-45: the value returned
GetResult(m, k, t) ==
    IF k \notin DOMAIN m THEN Null
    ELSE IF isExpired(m[k], t) THEN Null
    ELSE m[k].data

\* has(), lines 48-58
HasStore(m, k, t) ==
    IF k \in DOMAIN m /\ isExpired(m[k], t) THEN Remove(m, k) ELSE m

HasResult(m, k, t) ==
    IF k \notin DOMAIN m THEN "false"
    ELSE IF isExpired(m[k], t) THEN "false"
    ELSE "true"

\* delete(), lines 60-66
DeleteStore(m, k) == Remove(m, k)

DeleteResult(m, k) == IF k \in DOMAIN m THEN "true" ELSE "false"

\* A cleanup() that also sweeps the entries that are exactly ttl old.
CleanupStore_AtEquality(m, t) ==
    [x \in {k \in DOMAIN m : t - m[k].timestamp < m[k].ttl} |-> m[x]]

\* cleanup(), lines 78-92
CleanupStore(m, t) ==
    [x \in {k \in DOMAIN m : ~isExpired(m[k], t)} |-> m[x]]

NoSet == [set |-> FALSE, data |-> Null, at |-> 0, ttl |-> <<>>]

CacheEvent(op, k, ret) ==
    [op |-> op, key |-> k, ret |-> ret, pre |-> cache, at |-> now]

BreakerIdle == UNCHANGED <<breakerVars, handlerVars, utilVars>>

TimerIdle == UNCHANGED <<nextCleanup, lifecycle>>

Set(k, v, arg) ==
    /\ cache' = SetStore(cache, k, v, arg, now)
    /\ lastSet' = [lastSet EXCEPT ![k] =
                      [set |-> TRUE, data |-> v, at |-> now, ttl |-> arg]]
    /\ cev' = CacheEvent("set", k, "void")
    /\ UNCHANGED now
    /\ BreakerIdle
    /\ TimerIdle

Get(k) ==
    /\ cache' = GetStore(cache, k, now)
    /\ cev' = CacheEvent("get", k, GetResult(cache, k, now))
    /\ UNCHANGED <<lastSet, now>>
    /\ BreakerIdle
    /\ TimerIdle

Has(k) ==
    /\ cache' = HasStore(cache, k, now)
    /\ cev' = CacheEvent("has", k, HasResult(cache, k, now))
    /\ UNCHANGED <<lastSet, now>>
    /\ BreakerIdle
    /\ TimerIdle

Delete(k) ==
    /\ cache' = DeleteStore(cache, k)
    /\ lastSet' = [lastSet EXCEPT ![k] = NoSet]
    /\ cev' = CacheEvent("delete", k, DeleteResult(cache, k))
    /\ UNCHANGED now
    /\ BreakerIdle
    /\ TimerIdle

\* clear(), lines 68-71
Clear ==
    /\ cache' = <<>>
    /\ lastSet' = [k \in Keys |-> NoSet]
    /\ cev' = CacheEvent("clear", "", "void")
    /\ UNCHANGED now
    /\ BreakerIdle
    /\ TimerIdle

Cleanup ==
    /\ cache' = CleanupStore(cache, now)
    /\ cev' = CacheEvent("cleanup", "", "void")
    /\ UNCHANGED <<lastSet, now>>
    /\ BreakerIdle
    /\ TimerIdle

\* Date.now() advances between calls.
CacheTick(t) ==
    /\ t > now
    /\ now' = t
    /\ cev' = CacheEvent("tick", "", "void")
    /\ UNCHANGED <<cache, lastSet>>
    /\ BreakerIdle
    /\ TimerIdle

\* new Cache(), lines 13-14, line 95
CacheStart ==
    /\ cache = <<>>
    /\ lastSet = [k \in Keys |-> NoSet]
    /\ cev = [op |-> "init", key |-> "", ret |-> "void", pre |-> <<>>, at |-> 1]
    /\ nextCleanup = 1 + cleanupInterval
    /\ lifecycle = "running"
    /\ now = 1
    /\ state = "CLOSED"
    /\ failures = 0
    /\ lastFailTime = 0
    /\ failureThreshold = 1
    /\ timeout = 1
    /\ pc = [c \in Callers |-> "idle"]
    /\ callCount = 0
    /\ admit = [c \in Callers |-> "none"]
    /\ seqFailRun = 0
    /\ consecFails = 0
    /\ ev = [op |-> "init"]
    /\ hev = [op |-> "init"]
    /\ invocations = 0

CacheInit ==
    /\ CacheStart
    /\ sin = <<>>
    /\ sout = <<>>
    /\ AsyncStart
    /\ instances = <<>>
    /\ iev = [op |-> "init"]

CacheNext ==
    \/ \E k \in Keys, v \in Values, arg \in TtlArgs : Set(k, v, arg)
    \/ \E k \in Keys : Get(k)
    \/ \E k \in Keys : Has(k)
    \/ \E k \in Keys : Delete(k)
    \/ Clear
    \/ Cleanup
    \/ \E t \in Instants : CacheTick(t)

CacheSpec == CacheInit /\ [][CacheNext]_vars

\* ------------------------------------------------------ cache properties

\* The ttl a caller of set(k, v, ttl) asked for.
RequestedTtl(s) == IF s.ttl = <<>> THEN defaultTTL ELSE s.ttl[1]

\* C9: get(k) returns the value of the most recent set(k, v, ttl) if
\* now - createdAt <= ttl (live at exact equality) and absent if
\* now - createdAt > ttl or no entry exists; an expired value is never
\* returned.
C9_GetReturnsLiveValue ==
    cev.op = "get" =>
        LET s == lastSet[cev.key] IN
        cev.ret = IF s.set /\ cev.at - s.at <= RequestedTtl(s)
                  THEN s.data ELSE Null

\* C10: a get(k) that finds an expired entry removes that entry from the
\* store before returning absent (size() drops by one), and a get(k) that
\* finds a live entry leaves the store unchanged.
C10_GetLazyExpiry ==
    (cev.op = "get" /\ cev.key \in DOMAIN cev.pre) =>
        LET e == cev.pre[cev.key] IN
        IF cev.at - e.timestamp > e.ttl
        THEN /\ cache = Remove(cev.pre, cev.key)
             /\ size = Cardinality(DOMAIN cev.pre) - 1
             /\ cev.ret = Null
        ELSE cache = cev.pre

C10_Witness ==
    /\ cev.op = "get" /\ cev.key \in DOMAIN cev.pre
    /\ cev.at - cev.pre[cev.key].timestamp > cev.pre[cev.key].ttl
    /\ Cardinality(DOMAIN cev.pre) = 2
    /\ size = 1

\* C11: has and get are observably consistent: has(k) returns true exactly
\* when get(k) at the same instant would return a value rather than absent,
\* for every storable value, and has(k) deletes an expired entry just as
\* get(k) does.
C11_HasGetConsistent ==
    cev.op = "has" =>
        /\ (cev.ret = "true") <=> (GetResult(cev.pre, cev.key, cev.at) # Null)
        /\ cache = GetStore(cev.pre, cev.key, cev.at)

\* What get(k) is due to return at instant t for the entry written by the
\* set s: the value inside the requested ttl window, absent after it.
DueAt(s, t) == IF t - s.at <= RequestedTtl(s) THEN s.data ELSE Null

\* C12: a second set(k, v2, ttl2) on an existing key replaces the value and
\* resets the entry's age: get(k) returns v2 and the entry expires ttl2
\* after the second set, whenever the first set happened and whether or not
\* the first entry had already expired.
C12_OverwriteResetsAge ==
    (cev.op = "set" /\ cev.key \in DOMAIN cev.pre) =>
        LET s == lastSet[cev.key] IN
        /\ s.at = cev.at
        /\ \A t \in Instants :
              t >= now => GetResult(cache, cev.key, t) = DueAt(s, t)

\* Entries of the store m that are expired at instant t.
ExpiredIn(m, t) == {k \in DOMAIN m : t - m[k].timestamp > m[k].ttl}

\* C13: size() is the number of entries physically stored, counting entries
\* that are expired but not yet removed by get, has or cleanup; time passing
\* alone never changes size().
C13_SizeCountsStored ==
    LET before  == Cardinality(DOMAIN cev.pre)
        present == cev.key \in DOMAIN cev.pre
        expired == present /\ cev.key \in ExpiredIn(cev.pre, cev.at)
    IN
    /\ cev.op = "tick" => size = before
    /\ cev.op = "set" => size = IF present THEN before ELSE before + 1
    /\ cev.op \in {"get", "has"} =>
          size = IF expired THEN before - 1 ELSE before
    /\ cev.op = "delete" => size = IF present THEN before - 1 ELSE before
    /\ cev.op = "clear" => size = 0
    /\ cev.op = "cleanup" =>
          size = before - Cardinality(ExpiredIn(cev.pre, cev.at))
    /\ size >= Cardinality(ExpiredIn(cache, now))

C13_Witness ==
    /\ cev.op = "tick"
    /\ size = 2
    /\ Cardinality(ExpiredIn(cache, now)) = 1
    /\ Cardinality(ExpiredIn(cev.pre, cev.at)) = 0

\* C14: cleanup() removes every entry with now - createdAt > ttl and no
\* other entry: afterwards the store holds exactly the entries that were
\* live when it ran, with values, timestamps and ttls unchanged.
C14_CleanupSweepsExpired ==
    cev.op = "cleanup" =>
        /\ DOMAIN cache = DOMAIN cev.pre \ ExpiredIn(cev.pre, cev.at)
        /\ \A k \in DOMAIN cache : cache[k] = cev.pre[k]

C14_Witness ==
    /\ cev.op = "cleanup"
    /\ Cardinality(DOMAIN cev.pre) = 2
    /\ \E k \in DOMAIN cev.pre : cev.at - cev.pre[k].timestamp = cev.pre[k].ttl
    /\ Cardinality(ExpiredIn(cev.pre, cev.at)) = 1
    /\ size = 1

\* C15: set(key, value) with no ttl stores the entry with the 5-minute
\* default ttl, and set(key, value, ttl) stores the entry with exactly the
\* ttl supplied, for every supplied non-negative ttl.
C15_SetStoresSuppliedTtl ==
    cev.op = "set" =>
        LET s == lastSet[cev.key] IN
        cache[cev.key].ttl = IF s.ttl = <<>> THEN 300000 ELSE s.ttl[1]

\* get(k) and has(k) leave every entry under another key, and a live entry
\* under k, exactly as stored (data, timestamp and ttl), and add nothing.
ReadsKeepEntries ==
    cev.op \in {"get", "has"} =>
        /\ DOMAIN cache \subseteq DOMAIN cev.pre
        /\ \A k \in DOMAIN cev.pre :
              (k # cev.key \/ k \notin ExpiredIn(cev.pre, cev.at)) =>
                  k \in DOMAIN cache /\ cache[k] = cev.pre[k]

\* an entry set at time t with ttl d is absent at every time later than t + d
AbsentAfterTtl ==
    LET s == lastSet[cev.key] IN
    (cev.op \in {"get", "has"} /\ s.set /\ cev.at > s.at + RequestedTtl(s)) =>
        /\ cev.op = "get" => cev.ret = Null
        /\ cev.op = "has" => cev.ret = "false"

\* C36: reads never extend an entry's lifetime and never touch other keys:
\* get(k) and has(k) leave the timestamp and ttl of a live entry and every
\* entry under another key unchanged, so an entry set at time t with ttl d
\* is absent at every time later than t + d unless it is set again.
C36_ReadsNeverExtendLifetime == ReadsKeepEntries /\ AbsentAfterTtl

\* ------------------------------------------------- periodic cleanup timer
\* The last sampled instant; it stands for all the time after it.
Horizon == defaultTTL + MaxInstant

\* A timer armed with setTimeout: it fires once and is never due again.
Reschedule_OneShot(t) == Horizon + 1

\* setInterval: after a firing at t the next one is due one interval later
\* (at the horizon when that lies beyond the sampled instants).
Reschedule(t) ==
    IF t + cleanupInterval > Horizon THEN Horizon ELSE t + cleanupInterval

\* cache.ts:98-100: the interval callback runs cache.cleanup().
TimerFires ==
    /\ now >= nextCleanup
    /\ cache' = CleanupStore(cache, now)
    /\ cev' = CacheEvent("timer", "", "void")
    /\ nextCleanup' = Reschedule(now)
    /\ UNCHANGED <<lastSet, now, lifecycle>>
    /\ BreakerIdle

\* The process is asked to shut down: no request is served afterwards.
\* cache.ts keeps no handle of its interval and never clears it.
Shutdown ==
    /\ lifecycle = "running"
    /\ lifecycle' = "stopping"
    /\ cev' = CacheEvent("shutdown", "", "void")
    /\ UNCHANGED <<cache, lastSet, now, nextCleanup>>
    /\ BreakerIdle

\* Request traffic of the timer specification.
TimerValues == {"v1"}

Requests ==
    /\ lifecycle = "running"
    /\ \/ \E k \in Keys, v \in TimerValues, arg \in TtlArgs : Set(k, v, arg)
       \/ \E k \in Keys : Get(k)
       \/ \E k \in Keys : Has(k)
       \/ \E k \in Keys : Delete(k)
       \/ Clear
       \/ Cleanup

Clock == \E t \in Instants : CacheTick(t)

TimerNext == Requests \/ Clock \/ TimerFires \/ Shutdown

\* Time passes, and the event loop runs a due interval callback.
TimerSpec ==
    CacheInit /\ [][TimerNext]_vars /\ WF_vars(Clock) /\ WF_vars(TimerFires)

\* C16: with the cleanup timer firing periodically, independently of
\* request traffic, every entry that has expired is eventually removed from
\* the store, even if its key is never read or written again.
C16_ExpiredEventuallySwept ==
    \A k \in Keys :
        (k \in ExpiredIn(cache, now)) ~> (k \notin ExpiredIn(cache, now))

C16_Witness ==
    /\ cev.op = "timer"
    /\ ExpiredIn(cev.pre, cev.at) # {}
    /\ size < Cardinality(DOMAIN cev.pre)
    /\ lifecycle = "stopping"

\* C17: the cleanup timer is cancellable: on process shutdown it is
\* stopped, after which no further cleanup firing occurs and no timer
\* remains pending.
C17_TimerStoppedOnShutdown ==
    lifecycle = "stopping" => nextCleanup = 0 /\ cev.op # "timer"

\* ------------------------------------------------------------ tool handlers
\* JavaScript strings are sequences of characters, so that template
\* literals, toLowerCase, replace and the validators' regular expressions
\* are computed rather than assumed.
Lower ==
    <<"a", "b", "c", "d", "e", "f", "g", "h", "i", "j", "k", "l", "m", "n",
      "o", "p", "q", "r", "s", "t", "u", "v", "w", "x", "y", "z">>

Upper ==
    <<"A", "B", "C", "D", "E", "F", "G", "H", "I", "J", "K", "L", "M", "N",
      "O", "P", "Q", "R", "S", "T", "U", "V", "W", "X", "Y", "Z">>

Digits == <<"0", "1", "2", "3", "4", "5", "6", "7", "8", "9">>

Range(f) == {f[i] : i \in DOMAIN f}

\* String.prototype.toLowerCase, one character
LowerChar(c) ==
    IF \E i \in 1..26 : Upper[i] = c
    THEN Lower[CHOOSE i \in 1..26 : Upper[i] = c]
    ELSE c

toLowerCase(str) == [i \in 1..Len(str) |-> LowerChar(str[i])]

\* the regular expression class \s
IsSpace(c) == c \in {" ", "\t", "\n"}

\* str.replace(/\s+/g, '-')
RECURSIVE ReplaceSpaces(_)
ReplaceSpaces(str) ==
    IF str = <<>> THEN <<>>
    ELSE IF IsSpace(Head(str))
         THEN IF Len(str) > 1 /\ IsSpace(str[2])
              THEN ReplaceSpaces(Tail(str))
              ELSE <<"-">> \o ReplaceSpaces(Tail(str))
         ELSE <<Head(str)>> \o ReplaceSpaces(Tail(str))

\* /^[a-zA-Z0-9._-]+$/  (validation.ts, componentNameSchema and topicSchema)
NameChars == Range(Lower) \cup Range(Upper) \cup Range(Digits) \cup {".", "_", "-"}

MatchesNamePattern(str) == Len(str) >= 1 /\ \A i \in 1..Len(str) : str[i] \in NameChars

\* the cache key prefixes of the five handlers
P_component ==
    <<"m", "o", "t", "i", "o", "n", "-", "c", "o", "m", "p", "o", "n", "e",
      "n", "t", "-">>
P_list ==
    <<"m", "o", "t", "i", "o", "n", "-", "c", "o", "m", "p", "o", "n", "e",
      "n", "t", "s", "-", "l", "i", "s", "t", "-">>
P_example ==
    <<"m", "o", "t", "i", "o", "n", "-", "e", "x", "a", "m", "p", "l", "e",
      "-">>
P_search ==
    <<"m", "o", "t", "i", "o", "n", "-", "s", "e", "a", "r", "c", "h", "-">>
P_docs == <<"m", "o", "t", "i", "o", "n", "-", "d", "o", "c", "s", "-">>

\* strings of the requests and of the reference data
S_all == <<"a", "l", "l">>
S_animate == <<"a", "n", "i", "m", "a", "t", "e">>
S_nope == <<"n", "o", "p", "e">>
S_a_b == <<"a", " ", "b">>
S_s_list_react ==
    <<"s", "-", "l", "i", "s", "t", "-", "r", "e", "a", "c", "t">>
S_react == <<"r", "e", "a", "c", "t">>
S_examples == <<"e", "x", "a", "m", "p", "l", "e", "s">>
S_foo == <<"f", "o", "o">>
S_5 == <<"5">>
S_spring_animation ==
    <<"s", "p", "r", "i", "n", "g", "-", "a", "n", "i", "m", "a", "t", "i",
      "o", "n">>
S_spring == <<"s", "p", "r", "i", "n", "g">>
S_Spring == <<"S", "p", "r", "i", "n", "g">>
S_spring_button ==
    <<"s", "p", "r", "i", "n", "g", " ", "b", "u", "t", "t", "o", "n">>
S_spring__button ==
    <<"s", "p", "r", "i", "n", "g", "-", "b", "u", "t", "t", "o", "n">>
S_getting_started ==
    <<"g", "e", "t", "t", "i", "n", "g", "-", "s", "t", "a", "r", "t", "e",
      "d">>
S_javascript == <<"j", "a", "v", "a", "s", "c", "r", "i", "p", "t">>
S_hooks == <<"h", "o", "o", "k", "s">>
S_gestures == <<"g", "e", "s", "t", "u", "r", "e", "s">>
S_layout == <<"l", "a", "y", "o", "u", "t">>
S_undefined == <<"u", "n", "d", "e", "f", "i", "n", "e", "d">>

\* a string of 101 characters, over the length bound of the name validators
S_long == [i \in 1..101 |-> "a"]

\* ---- JavaScript values of a request field: the type and String(value)
Undef  == [t |-> "undefined", s |-> S_undefined]
Str(x) == [t |-> "string", s |-> x]
Num(x) == [t |-> "number", s |-> x]
Arr(x) == [t |-> "array", s |-> x]     \* [x].toString() is x

\* truthiness, as tested by `category ? ...`, `category || 'all'`
Truthy(v) ==
    CASE v.t = "undefined" -> FALSE
      [] v.t = "string"    -> Len(v.s) > 0
      [] v.t = "number"    -> v.s # <<"0">>
      [] OTHER             -> TRUE

\* params: undefined, or an object carrying the tool's field
NoParams == [present |-> FALSE, field |-> Undef]
Obj(v)   == [present |-> TRUE, field |-> v]

Tools == {"get_motion_component", "list_motion_components",
          "get_motion_example", "search_motion_examples", "get_motion_docs"}

\* ---- zod validators (validation.ts); each yields the set of issues
TypeIssues(v) ==
    IF v.t = "undefined" THEN {"Required"}
    ELSE IF v.t # "string" THEN {"Expected string, received " \o v.t}
    ELSE {}

\* validation.ts, componentNameSchema (axios.ts:131-134)
componentNameSchema(v) ==
    IF TypeIssues(v) # {} THEN TypeIssues(v)
    ELSE (IF Len(v.s) < 1 THEN {"Component name cannot be empty"} ELSE {})
         \cup (IF Len(v.s) > 100 THEN {"Component name too long"} ELSE {})
         \cup (IF ~MatchesNamePattern(v.s)
               THEN {"Component name contains invalid characters"} ELSE {})

\* validation.ts, searchQuerySchema (axios.ts:139-141)
searchQuerySchema(v) ==
    IF TypeIssues(v) # {} THEN TypeIssues(v)
    ELSE (IF Len(v.s) < 1 THEN {"Search query cannot be empty"} ELSE {})
         \cup (IF Len(v.s) > 200 THEN {"Search query too long"} ELSE {})

ValidatorCategories ==
    {S_react, S_javascript, S_hooks, S_gestures, S_layout, S_examples}

\* validation.ts, categorySchema (axios.ts:146-149): optional string,
\* refined by  !val || [...].includes(val)
categorySchema(v) ==
    IF v.t = "undefined" THEN {}
    ELSE IF v.t # "string" THEN {"Expected string, received " \o v.t}
    ELSE IF Len(v.s) = 0 \/ v.s \in ValidatorCategories THEN {}
    ELSE {"Invalid category"}

\* validation.ts, topicSchema (axios.ts:154-157)
topicSchema(v) ==
    IF TypeIssues(v) # {} THEN TypeIssues(v)
    ELSE (IF Len(v.s) < 1 THEN {"Topic cannot be empty"} ELSE {})
         \cup (IF Len(v.s) > 100 THEN {"Topic too long"} ELSE {})
         \cup (IF ~MatchesNamePattern(v.s)
               THEN {"Topic contains invalid characters"} ELSE {})

\* get-motion-example.ts, exampleTypeSchema (part_002:351-353)
exampleTypeSchema(v) ==
    IF TypeIssues(v) # {} THEN TypeIssues(v)
    ELSE (IF Len(v.s) < 1 THEN {"Example type cannot be empty"} ELSE {})
         \cup (IF Len(v.s) > 100 THEN {"Example type too long"} ELSE {})

\* ---- reference data: the keys of the static tables that the requests of
\* the model can name
MOTION_COMPONENTS      == {S_animate}
MOTION_COMPONENTS_LIST == {S_react, S_javascript, S_hooks, S_gestures, S_layout}
MOTION_EXAMPLES        == {S_spring_animation}
MOTION_DOCS            == {S_getting_started}

\* query.toLowerCase().split(/\s+/)
RECURSIVE SplitSpaces(_, _)
SplitSpaces(str, word) ==
    IF str = <<>> THEN {word}
    ELSE IF IsSpace(Head(str))
         THEN IF Len(str) > 1 /\ IsSpace(str[2])
              THEN SplitSpaces(Tail(str), word)
              ELSE {word} \cup SplitSpaces(Tail(str), <<>>)
         ELSE SplitSpaces(Tail(str), Append(word, Head(str)))

\* ---- results.  kind: "success", "notFound" (an error object built by the
\* handler's lookup), "invalid" (the ZodError branch of the catch) or
\* "failed" (the generic branch of the catch).  req is history: the request
\* the result was computed for.
Request(tool, p) == [tool |-> tool, params |-> p]

Result(kind, tool, p, subject, body, issues, message) ==
    [kind |-> kind, subject |-> subject, body |-> body, issues |-> issues,
     message |-> message, req |-> Request(tool, p)]

\* errors thrown inside a handler's try block
NoThrow      == [class |-> "none", issues |-> {}, message |-> ""]
ZodError(is) == [class |-> "ZodError", issues |-> is, message |-> "zod"]
TypeError(m) == [class |-> "TypeError", issues |-> {}, message |-> m]

NoResult == Result("none", "", NoParams, <<>>, {}, {}, "")

\* what one run of a try block did
Ran(thrown, ret, store, key, lookup, hit, data, write) ==
    [thrown |-> thrown, ret |-> ret, store |-> store, key |-> key,
     lookup |-> lookup, hit |-> hit, data |-> data, write |-> write]

Threw(e, m) == Ran(e, NoResult, m, <<>>, FALSE, FALSE, FALSE, FALSE)

\* A lookup that never finds anything.
Cached_Never(m, key, t) == <<>>

\* const cached = cache.get(cacheKey): <<>> for null, <<data>> otherwise
Cached(m, key, t) ==
    IF key \in DOMAIN GetStore(m, key, t) THEN <<m[key].data>> ELSE <<>>

\* A miss that returns the result without storing it.
LookupOrStore_NoStore(m, t, key, result, ttl) ==
    IF Cached(m, key, t) # <<>>
    THEN Ran(NoThrow, Cached(m, key, t)[1], GetStore(m, key, t), key,
             TRUE, TRUE, FALSE, FALSE)
    ELSE Ran(NoThrow, result, GetStore(m, key, t), key,
             TRUE, FALSE, TRUE, FALSE)

\* the shape shared by the handlers: look the key up, return a hit,
\* otherwise build the result and store it with the ttl of its branch
LookupOrStore(m, t, key, result, ttl) ==
    IF Cached(m, key, t) # <<>>
    THEN Ran(NoThrow, Cached(m, key, t)[1], GetStore(m, key, t), key,
             TRUE, TRUE, FALSE, FALSE)
    ELSE Ran(NoThrow, result,
             SetStore(GetStore(m, key, t), key, result, <<ttl>>, t), key,
             TRUE, FALSE, TRUE, TRUE)

\* params.<field>: reading a property of undefined throws a TypeError
NoParamsError == TypeError("Cannot read properties of undefined")

\* get-motion-component.ts, lines 194-246: the try block
TryGetMotionComponent(p, m, t) ==
    IF ~p.present THEN Threw(NoParamsError, m)
    ELSE IF componentNameSchema(p.field) # {}
    THEN Threw(ZodError(componentNameSchema(p.field)), m)
    ELSE LET componentName == p.field.s
             tool == "get_motion_component"
         IN  LookupOrStore(m, t, P_component \o componentName,
                 IF componentName \in MOTION_COMPONENTS
                 THEN Result("success", tool, p, componentName,
                             {componentName}, {}, "")
                 ELSE Result("notFound", tool, p, componentName, {}, {},
                             "Component not found"),
                 300000)

\* list-motion-components.ts (part_002), lines 190-245: the try block.  The
\* cache is consulted at line 198, the category validated at line 207.
TryListMotionComponents(p, m, t) ==
    LET category == p.field       \* (params || {}).category
        tool     == "list_motion_components"
        cacheKey == P_list \o (IF Truthy(category) THEN category.s ELSE S_all)
        hit      == Cached(m, cacheKey, t)
        after    == GetStore(m, cacheKey, t)
    IN  IF hit # <<>>
        THEN Ran(NoThrow, hit[1], after, cacheKey, TRUE, TRUE, FALSE, FALSE)
        ELSE IF Truthy(category) /\ categorySchema(category) # {}
        THEN Ran(ZodError(categorySchema(category)), NoResult, after,
                 cacheKey, TRUE, FALSE, FALSE, FALSE)
        ELSE LET result ==
                   IF ~Truthy(category)
                   THEN Result("success", tool, p, S_all,
                               MOTION_COMPONENTS_LIST, {}, "")
                   ELSE IF category.s \notin MOTION_COMPONENTS_LIST
                   THEN Result("notFound", tool, p, category.s, {}, {},
                               "Invalid category")
                   ELSE Result("success", tool, p, category.s,
                               {category.s}, {}, "")
             IN  Ran(NoThrow, result,
                     SetStore(after, cacheKey, result, <<600000>>, t),
                     cacheKey, TRUE, FALSE, Truthy(category), TRUE)

\* get-motion-example.ts (part_002), lines 694-747: the try block
TryGetMotionExample(p, m, t) ==
    IF ~p.present THEN Threw(NoParamsError, m)
    ELSE IF exampleTypeSchema(p.field) # {}
    THEN Threw(ZodError(exampleTypeSchema(p.field)), m)
    ELSE LET exampleType == p.field.s
             tool == "get_motion_example"
         IN  IF exampleType \in MOTION_EXAMPLES
             THEN LookupOrStore(m, t, P_example \o exampleType,
                      Result("success", tool, p, exampleType,
                             {exampleType}, {}, ""), 600000)
             ELSE LookupOrStore(m, t, P_example \o exampleType,
                      Result("notFound", tool, p, exampleType, {}, {},
                             "Example type not found"), 300000)

\* search-motion-examples.ts (part_003), lines 219-283: the try block.  The
\* result echoes the query and is computed from its lower-cased terms.
TrySearchMotionExamples(p, m, t) ==
    IF ~p.present THEN Threw(NoParamsError, m)
    ELSE IF searchQuerySchema(p.field) # {}
    THEN Threw(ZodError(searchQuerySchema(p.field)), m)
    ELSE LET query == p.field.s
             tool  == "search_motion_examples"
         IN  LookupOrStore(m, t,
                 P_search \o ReplaceSpaces(toLowerCase(query)),
                 Result("success", tool, p, query,
                        SplitSpaces(toLowerCase(query), <<>>), {}, ""),
                 300000)

\* get-motion-docs.ts (part_003), lines 746-794: the try block
TryGetMotionDocs(p, m, t) ==
    IF ~p.present THEN Threw(NoParamsError, m)
    ELSE IF topicSchema(p.field) # {}
    THEN Threw(ZodError(topicSchema(p.field)), m)
    ELSE LET topic == p.field.s
             tool  == "get_motion_docs"
         IN  IF topic \in MOTION_DOCS
             THEN LookupOrStore(m, t, P_docs \o topic,
                      Result("success", tool, p, topic, {topic}, {}, ""),
                      1800000)
             ELSE LookupOrStore(m, t, P_docs \o topic,
                      Result("notFound", tool, p, topic, {}, {},
                             "Documentation topic not found"), 300000)

\* tools/index.ts (part_002:275-281), toolHandlers
TryBlock(tool, p, m, t) ==
    CASE tool = "get_motion_component"   -> TryGetMotionComponent(p, m, t)
      [] tool = "list_motion_components" -> TryListMotionComponents(p, m, t)
      [] tool = "get_motion_example"     -> TryGetMotionExample(p, m, t)
      [] tool = "search_motion_examples" -> TrySearchMotionExamples(p, m, t)
      [] tool = "get_motion_docs"        -> TryGetMotionDocs(p, m, t)

\* the `error` text of the ZodError branch of each handler's catch
InvalidMessage(tool) ==
    CASE tool = "search_motion_examples" -> "Invalid search query"
      [] tool = "get_motion_docs"        -> "Invalid topic parameter"
      [] OTHER                           -> "Invalid parameters"

\* A catch block that converts validation errors only and lets any other
\* error escape.
Catch_ZodOnly(tool, p, e) ==
    IF e.class = "ZodError"
    THEN [ret |-> Result("invalid", tool, p, <<>>, {}, e.issues,
                         InvalidMessage(tool)),
          escaped |-> NoThrow]
    ELSE [ret |-> NoResult, escaped |-> e]

\* the catch block of every handler: a ZodError becomes the validation
\* error object, anything else the generic error object with error.message
Catch(tool, p, e) ==
    IF e.class = "ZodError"
    THEN [ret |-> Result("invalid", tool, p, <<>>, {}, e.issues,
                         InvalidMessage(tool)),
          escaped |-> NoThrow]
    ELSE [ret |-> Result("failed", tool, p, <<>>, {}, {}, e.message),
          escaped |-> NoThrow]

\* one call of a handler: what the try block did, and what the caller gets
Handle(tool, p, m, t) ==
    LET run == TryBlock(tool, p, m, t)
    IN  [run |-> run,
         out |-> IF run.thrown = NoThrow
                 THEN [ret |-> run.ret, escaped |-> NoThrow]
                 ELSE Catch(tool, p, run.thrown)]

\* ---- the requests the model sends to each tool
MaxInvocations == 2

S_0 == <<"0">>

ToolRequests(tool) ==
    CASE tool = "get_motion_component" ->
           {NoParams, Obj(Undef), Obj(Num(S_5)), Obj(Str(<<>>)),
            Obj(Str(S_a_b)), Obj(Str(S_long)), Obj(Str(S_animate)),
            Obj(Str(S_nope)), Obj(Str(S_s_list_react))}
      [] tool = "list_motion_components" ->
           {NoParams, Obj(Undef), Obj(Str(S_react)), Obj(Str(S_examples)),
            Obj(Str(S_foo)), Obj(Str(S_all)), Obj(Arr(S_react)),
            Obj(Num(S_5)), Obj(Num(S_0))}
      [] tool = "get_motion_example" ->
           {NoParams, Obj(Num(S_5)), Obj(Str(S_spring_animation)),
            Obj(Str(S_nope))}
      [] tool = "search_motion_examples" ->
           {NoParams, Obj(Str(<<>>)), Obj(Str(S_spring)), Obj(Str(S_Spring)),
            Obj(Str(S_spring_button)), Obj(Str(S_spring__button))}
      [] tool = "get_motion_docs" ->
           {NoParams, Obj(Str(S_a_b)), Obj(Str(S_getting_started)),
            Obj(Str(S_nope))}

\* toolHandlers[name](params): one call of a tool handler.
\* The handlers contain no await, so one call is one step.
Invoke(tool, p) ==
    /\ invocations < MaxInvocations
    /\ LET h == Handle(tool, p, cache, now)
       IN  /\ cache' = h.run.store
           /\ hev' = [op |-> "invoke", tool |-> tool, params |-> p,
                      run |-> h.run, ret |-> h.out.ret,
                      escaped |-> h.out.escaped, pre |-> cache, at |-> now]
    /\ invocations' = invocations + 1
    /\ UNCHANGED <<now, lastSet, cev, nextCleanup, lifecycle>>
    /\ UNCHANGED <<breakerVars, utilVars>>

\* The instants at which handlers are called: the start, and just after
\* 5, 10 and 30 minutes, the ttls the handlers store results with.
HandlerInstants == {1, 1 + 300001, 1 + 600001, 1 + 1800001}

\* Date.now() moves on to a later instant.
\* (The cleanup timer is left out of this specification: get() treats an
\* expired entry as absent whether or not it has been swept, so a handler
\* cannot observe a firing.)
HandlerTick ==
    /\ \E t \in HandlerInstants : t > now /\ now' = t
    /\ UNCHANGED <<cacheVars, handlerVars, breakerVars, utilVars>>

\* names that are not keys of toolHandlers
S_get_motion_theme == "get_motion_theme"
UnknownNames == {S_get_motion_theme, ""}

\* A dispatcher that calls toolHandlers[name] without looking: calling
\* undefined throws.
UnknownTool_Throws(name, p, m) ==
    [run |-> Threw(TypeError("toolHandlers[name] is not a function"), m),
     out |-> [ret |-> NoResult,
              escaped |-> TypeError("toolHandlers[name] is not a function")]]

\* Dispatcher, step 1: a name without a registered handler is answered with
\* Failure(UnknownTool); no handler runs
UnknownTool(name, p, m) ==
    [run |-> Threw(NoThrow, m),
     out |-> [ret |-> Result("unknownTool", name, p, <<>>, {}, {},
                             "Unknown tool"),
              escaped |-> NoThrow]]

\* Dispatcher.invoke(name, params) with a name that is not registered
InvokeUnknown(name, p) ==
    /\ invocations < MaxInvocations
    /\ name \notin Tools
    /\ LET h == UnknownTool(name, p, cache)
       IN  /\ cache' = h.run.store
           /\ hev' = [op |-> "unknown", tool |-> name, params |-> p,
                      run |-> h.run, ret |-> h.out.ret,
                      escaped |-> h.out.escaped, pre |-> cache, at |-> now]
    /\ invocations' = invocations + 1
    /\ UNCHANGED <<now, lastSet, cev, nextCleanup, lifecycle>>
    /\ UNCHANGED <<breakerVars, utilVars>>

HandlerInit == CacheInit

HandlerNext ==
    \/ \E tool \in Tools : \E p \in ToolRequests(tool) : Invoke(tool, p)
    \/ \E name \in UnknownNames : \E p \in {NoParams, Obj(Str(S_animate))} :
           InvokeUnknown(name, p)
    \/ HandlerTick

HandlerSpec == HandlerInit /\ [][HandlerNext]_vars

\* C37: every category the category validator accepts is served:
\* list_motion_components with an accepted non-empty category returns that
\* category's component list, and an 'Invalid category' result is produced
\* only for values the validator rejects.
C37_AcceptedCategoryServed ==
    (/\ hev.op = "invoke"
     /\ hev.tool = "list_motion_components"
     /\ hev.params.present
     /\ hev.params.field.t = "string"
     /\ hev.params.field.s # <<>>)
    => /\ categorySchema(hev.params.field) = {} =>
             /\ hev.ret.kind = "success"
             /\ hev.ret.subject = hev.params.field.s
             /\ hev.ret.body = {hev.params.field.s}
       /\ hev.ret.message = "Invalid category" =>
             categorySchema(hev.params.field) # {}

\* ---- concurrent invocations
\* The await expressions inside the handlers' bodies, as places where a
\* body would suspend: there are none, so a call runs from entry to return.
AwaitPoints_BeforeSet == {"beforeSet"}

AwaitPoints == {}

ConcurrentTools == {"get_motion_component", "search_motion_examples"}

\* requests sent concurrently: hits, misses, two spellings of one search
\* key, and a call that fails before its lookup
ConcurrentRequests(tool) ==
    IF tool = "get_motion_component"
    THEN {NoParams, Obj(Str(S_animate)), Obj(Str(S_nope))}
    ELSE {Obj(Str(S_spring)), Obj(Str(S_Spring))}

\* what the body has done when control first leaves it
AtCall(h, m, t) ==
    IF "beforeSet" \in AwaitPoints /\ h.run.write
    THEN [store |-> GetStore(m, h.run.key, t), pc |-> "suspended"]
    ELSE [store |-> h.run.store, pc |-> "returned"]

\* handler(params) is called: the body runs up to its first await, or to
\* its return; the promise it returns is settled in a later turn
Call(c, tool, p) ==
    /\ invocations < MaxInvocations
    /\ task[c].pc = "idle"
    /\ LET h == Handle(tool, p, cache, now)
           a == AtCall(h, cache, now)
       IN  /\ cache' = a.store
           /\ task' = [d \in Callers |->
                         IF d = c
                         THEN [pc |-> a.pc, h |-> h, seen |-> a.store,
                               between |-> 0]
                         ELSE IF task[d].pc = "suspended"
                              THEN [task[d] EXCEPT !.between = @ + 1]
                              ELSE task[d]]
           /\ tev' = [op |-> "call", c |-> c, lookup |-> h.run.lookup,
                      write |-> h.run.write /\ a.pc = "returned",
                      seen |-> a.store, preStore |-> a.store, between |-> 0,
                      pre |-> cache, others |-> {d \in Callers \ {c} :
                                                  task[d].pc # "idle"}]
    /\ invocations' = invocations + 1
    /\ UNCHANGED <<now, lastSet, cev, nextCleanup, lifecycle, hev>>
    /\ UNCHANGED <<breakerVars, sin, sout, instances, iev, vout>>

\* the rest of a suspended body (its cache.set), or the settling of the
\* promise of a body that has returned
Resume(c) ==
    /\ task[c].pc \in {"suspended", "returned"}
    /\ LET k == task[c].h.run.key
           suspended == task[c].pc = "suspended"
       IN  /\ cache' = IF suspended
                       THEN [x \in DOMAIN cache \cup {k} |->
                               IF x = k THEN task[c].h.run.store[k]
                               ELSE cache[x]]
                       ELSE cache
           /\ tev' = [op |-> "resume", c |-> c, lookup |-> FALSE,
                      write |-> suspended, seen |-> task[c].seen,
                      preStore |-> IF suspended THEN cache ELSE task[c].seen,
                      between |-> task[c].between, pre |-> cache,
                      others |-> {d \in Callers \ {c} : task[d].pc # "idle"}]
    /\ task' = [task EXCEPT ![c] = [pc |-> "idle"]]
    /\ UNCHANGED <<now, lastSet, cev, nextCleanup, lifecycle, handlerVars>>
    /\ UNCHANGED <<breakerVars, sin, sout, instances, iev, vout>>

ConcurrentNext ==
    \/ \E c \in Callers : \E tool \in ConcurrentTools :
           \E p \in ConcurrentRequests(tool) : Call(c, tool, p)
    \/ \E c \in Callers : Resume(c)
    \/ HandlerTick

ConcurrentSpec == HandlerInit /\ [][ConcurrentNext]_vars

\* C32: a handler's cache lookup, computation and cache write happen with
\* no suspension between them: the cache an invocation writes into is the
\* cache its own lookup left, no other invocation has been called in
\* between, and this holds while other invocations are in progress.
C32_LookupComputeStoreAtomic ==
    tev.op \in {"call", "resume"} /\ tev.write =>
        /\ tev.op = "call"
        /\ tev.lookup
        /\ tev.preStore = tev.seen
        /\ tev.between = 0

C32_Witness ==
    /\ tev.op = "call" /\ tev.write /\ tev.lookup
    /\ tev.others # {}
    /\ tev.pre # <<>>

\* C18: every invocation of every tool handler, whatever its params
\* (missing params, missing field, ill-typed field, invalid or unknown
\* value), resolves to a result object, a success payload or an error
\* object; no exception escapes the handler.
C18_NoExceptionEscapes ==
    hev.op = "invoke" =>
        /\ hev.escaped = NoThrow
        /\ hev.ret.kind \in {"success", "notFound", "invalid", "failed"}

\* a call without params threw inside the try block and was answered with
\* the generic error object
C18_Witness ==
    /\ hev.op = "invoke"
    /\ ~hev.params.present
    /\ hev.run.thrown.class = "TypeError"
    /\ hev.ret.kind = "failed"
    /\ hev.escaped = NoThrow

\* the zod schema each handler parses its field with
SchemaOf(tool, v) ==
    CASE tool = "get_motion_component"   -> componentNameSchema(v)
      [] tool = "list_motion_components" -> categorySchema(v)
      [] tool = "get_motion_example"     -> exampleTypeSchema(v)
      [] tool = "search_motion_examples" -> searchQuerySchema(v)
      [] tool = "get_motion_docs"        -> topicSchema(v)

\* C19: validation is fail-closed: for every tool, a request whose field
\* fails that tool's schema validator is answered with a validation error
\* before any cache lookup, reference-data lookup or cache write is
\* performed for it, and it never receives a success or cached payload.
C19_ValidationFailClosed ==
    (/\ hev.op = "invoke"
     /\ hev.params.present
     /\ SchemaOf(hev.tool, hev.params.field) # {})
    => /\ hev.ret.kind = "invalid"
       /\ ~hev.run.lookup
       /\ ~hev.run.hit
       /\ ~hev.run.data
       /\ ~hev.run.write

\* String.prototype.trim
RECURSIVE trimStart(_)
trimStart(str) ==
    IF str # <<>> /\ IsSpace(Head(str)) THEN trimStart(Tail(str)) ELSE str

RECURSIVE trimEnd(_)
trimEnd(str) ==
    IF str # <<>> /\ IsSpace(str[Len(str)])
    THEN trimEnd(SubSeq(str, 1, Len(str) - 1))
    ELSE str

trim(str) == trimEnd(trimStart(str))

\* validation.ts, sanitizeObject, on the params of a tool: strings, and the
\* strings of an array, are trimmed; everything else is kept
sanitizeParams(p) ==
    IF p.present /\ p.field.t \in {"string", "array"}
    THEN [p EXCEPT !.field.s = trim(p.field.s)]
    ELSE p

\* validation.ts, validateAndSanitizeParams on the params of a tool:
\* sanitizeObject(params || {})
SanitizedParams(p) ==
    sanitizeParams(IF p.present THEN p ELSE Obj(Undef))

\* the logical request: the tool name and the sanitized parameters
Logical(r) == [tool |-> r.tool, params |-> SanitizedParams(r.params)]

\* C20: cache keys are unique per logically distinct request: two
\* invocations that differ in tool name or in their sanitized parameters
\* get different cache keys, across all five tools, so that no invocation
\* ever receives a result that was cached for a different request.
C20_CacheKeysUnique ==
    (hev.op = "invoke" /\ hev.run.hit) =>
        Logical(hev.ret.req) = Logical(Request(hev.tool, hev.params))

\* the live entries of a store that were written for request r
LiveFor(m, t, r) ==
    {k \in DOMAIN m : ~isExpired(m[k], t) /\ m[k].data.req = r}

\* C21: on a cache hit the stored result is returned unchanged: a repeat
\* invocation of the same tool with the same parameters, made while the
\* entry written by the first invocation is still live, returns exactly
\* the result the first invocation returned and performs no
\* reference-data lookup and no cache write.
C21_HitReturnsStored ==
    hev.op = "invoke" =>
        \A k \in LiveFor(hev.pre, hev.at, Request(hev.tool, hev.params)) :
            /\ hev.ret = hev.pre[k].data
            /\ ~hev.run.data
            /\ ~hev.run.write
            /\ cache[k] = hev.pre[k]

\* a documentation request repeated more than ten minutes after the first
\* was answered from the entry stored then
C21_Witness ==
    /\ hev.op = "invoke"
    /\ hev.tool = "get_motion_docs"
    /\ LiveFor(hev.pre, hev.at, Request(hev.tool, hev.params)) # {}
    /\ hev.at > 600000
    /\ hev.run.hit
    /\ hev.ret.kind = "success"

\* C22: when a handler hits an unexpected internal error, the result
\* returned to the caller is a generic internal-error object; the text of
\* the internal exception's message does not appear anywhere in the
\* returned result.
C22_NoInternalTextInResult ==
    (/\ hev.op = "invoke"
     /\ hev.run.thrown.class \notin {"none", "ZodError"})
    => /\ hev.ret.kind = "failed"
       /\ hev.ret.message # hev.run.thrown.message

\* C23: an invocation whose field violates its schema (empty, over the
\* length bound, characters outside the name pattern, or a category outside
\* the enumerated set) returns a structured validation error object whose
\* details state the violated constraints of the field; it is neither
\* thrown nor reported as the generic internal-error object.
C23_StructuredValidationError ==
    (/\ hev.op = "invoke"
     /\ hev.params.present
     /\ hev.params.field.t = "string"
     /\ SchemaOf(hev.tool, hev.params.field) # {})
    => /\ hev.escaped = NoThrow
       /\ hev.ret.kind = "invalid"
       /\ hev.ret.issues = SchemaOf(hev.tool, hev.params.field)

\* C24: invoking a tool name that is not one of the five registered
\* handlers returns a Failure(UnknownTool) result and never throws; no
\* handler runs and the cache and the breakers are left unchanged.
C24_UnknownToolFailure ==
    hev.op = "unknown" =>
        /\ hev.tool \notin Tools
        /\ hev.escaped = NoThrow
        /\ hev.ret.kind = "unknownTool"
        /\ ~hev.run.lookup /\ ~hev.run.data /\ ~hev.run.write
        /\ cache = hev.pre
        /\ this = [state |-> "CLOSED", failures |-> 0, lastFailTime |-> 0]

\* an unregistered name was invoked while the cache held an entry
C24_Witness ==
    /\ hev.op = "unknown"
    /\ hev.tool = S_get_motion_theme
    /\ hev.ret.kind = "unknownTool"
    /\ DOMAIN hev.pre # {}
    /\ cache = hev.pre

\* C25: cache ttl policy: every not-found or error result a handler stores
\* is stored with the short 5-minute ttl, and every successful lookup
\* result is stored with a longer ttl of 10 to 30 minutes depending on the
\* tool, for all five tools.
C25_TtlPolicy ==
    (hev.op = "invoke" /\ hev.run.write) =>
        LET entry == hev.run.store[hev.run.key]
        IN  /\ entry.data.kind # "success" => entry.ttl = 300000
            /\ entry.data.kind = "success" =>
                   entry.ttl >= 600000 /\ entry.ttl <= 1800000

\* C26: after any invocation that passed validation returns (a cache hit
\* or a miss, a found or a not-found lookup), the cache holds a live entry
\* under that invocation's key whose value equals the result returned.
C26_ResultIsCached ==
    (hev.op = "invoke" /\ SchemaOf(hev.tool, hev.params.field) = {}) =>
        /\ hev.run.key \in DOMAIN hev.run.store
        /\ ~isExpired(hev.run.store[hev.run.key], hev.at)
        /\ hev.run.store[hev.run.key].data = hev.ret

\* a request for an unknown example was answered and its not-found result
\* is in the cache
C26_Witness ==
    /\ hev.op = "invoke"
    /\ hev.tool = "get_motion_example"
    /\ SchemaOf(hev.tool, hev.params.field) = {}
    /\ hev.ret.kind = "notFound"
    /\ ~hev.run.hit
    /\ cache[hev.run.key].data = hev.ret

\* C27: no invocation failure affects later requests: an invocation that
\* ends in a validation error or an internal error leaves the cache
\* contents and every breaker's state unchanged.
C27_FailureLeavesStateUnchanged ==
    (hev.op = "invoke" /\ hev.ret.kind \in {"invalid", "failed"}) =>
        /\ hev.run.store = hev.pre
        /\ this = [state |-> "CLOSED", failures |-> 0, lastFailTime |-> 0]

\* ------------------------------------------------------------ sanitizer
\* JSON values: the type, the text of a string (number, boolean), the
\* items of an array, the own enumerable properties of an object and, for
\* an object, its prototype: <<>> for Object.prototype, <<v>> for v.
JV(t, s, items, fields, proto) ==
    [t |-> t, s |-> s, items |-> items, fields |-> fields, proto |-> proto]

JStr(str)    == JV("string", str, <<>>, <<>>, <<>>)
JNum(str)    == JV("number", str, <<>>, <<>>, <<>>)
JBool(str)   == JV("boolean", str, <<>>, <<>>, <<>>)
JNull        == JV("null", <<>>, <<>>, <<>>, <<>>)
JUndefined   == JV("undefined", <<>>, <<>>, <<>>, <<>>)
JArr(items)  == JV("array", <<>>, items, <<>>, <<>>)
JObj(fields) == JV("object", <<>>, <<>>, fields, <<>>)

S_proto == "__proto__"

\* sanitized[key] = value on the fresh object literal `sanitized`: an
\* ordinary key becomes an own property; the key "__proto__" runs the
\* setter inherited from Object.prototype, which replaces the prototype
\* when the value is an object (or null) and does nothing otherwise.
ProtoAfter(proto, key, value) ==
    IF key = S_proto /\ value.t \in {"object", "array", "null"}
    THEN <<value>>
    ELSE proto

\* validation.ts, sanitizeObject (axios.ts:104-126).  The loop over
\* Object.entries(obj) assigns every own property to a fresh object.
RECURSIVE sanitizeObject(_)
sanitizeObject(obj) ==
    CASE obj.t \in {"null", "undefined"} -> obj
      [] obj.t = "string" -> JStr(trim(obj.s))
      [] obj.t = "array" ->
           JArr([i \in DOMAIN obj.items |-> sanitizeObject(obj.items[i])])
      [] obj.t = "object" ->
           JV("object", <<>>, <<>>,
              [k \in DOMAIN obj.fields \ {S_proto} |->
                  sanitizeObject(obj.fields[k])],
              IF S_proto \in DOMAIN obj.fields
              THEN ProtoAfter(<<>>, S_proto, sanitizeObject(obj.fields[S_proto]))
              ELSE <<>>)
      [] OTHER -> obj

\* ---- the values the sanitizer is applied to
MaxItems        == 1   \* longest array drawn
MaxApplications == 2   \* times sanitizeObject is applied in a row

S_hi_padded  == <<" ", "h", "i", " ">>
S_b_padded   == <<"b", " ">>
S_y_padded   == <<"\t", "y", "\n">>
S_blank      == <<" ">>
S_true       == <<"t", "r", "u", "e">>
S_false      == <<"f", "a", "l", "s", "e">>

\* the typeof operator
typeof(v) == IF v.t \in {"object", "array", "null"} THEN "object" ELSE v.t

\* ToBoolean, as applied by `params && ...` and `params || {}`
ToBoolean(v) ==
    CASE v.t \in {"undefined", "null"} -> FALSE
      [] v.t = "string"  -> v.s # <<>>
      [] v.t = "number"  -> v.s # S_0
      [] v.t = "boolean" -> v.s = S_true
      [] OTHER           -> TRUE

MustBeObject == "Parameters must be an object"

\* validateAndSanitizeParams(method, params), lines 84-99: the error thrown
\* ("" when it returns) and the value returned
validateAndSanitizeParams(params) ==
    IF ToBoolean(params) /\ typeof(params) # "object"
    THEN [thrown |-> MustBeObject, value |-> JUndefined]
    ELSE [thrown |-> "",
          value |-> sanitizeObject(IF ToBoolean(params) THEN params
                                   ELSE JObj(<<>>))]

SanitizerStrings == {<<>>, S_blank, S_hi_padded, S_b_padded, S_y_padded, S_a_b}
SanitizerKeys    == {"name", S_proto}

Leaves ==
    {JStr(str) : str \in SanitizerStrings}
        \cup {JNum(S_5), JNum(S_0), JBool(S_true), JBool(S_false), JNull,
              JUndefined}

ArraysOver(V)  == UNION {[1..n -> V] : n \in 0..MaxItems}
ObjectsOver(V) == {<<>>} \cup {k :> v : k \in SanitizerKeys, v \in V}

\* one more level of nesting around the values of V
Nest(V) ==
    Leaves \cup {JArr(a) : a \in ArraysOver(V)}
           \cup {JObj(f) : f \in ObjectsOver(V)}

\* { name: " hi ", tags: [" hi ", "b "], nested: { x: "\ty\n" } }
NestedExample ==
    JObj(("name" :> JStr(S_hi_padded))
         @@ ("tags" :> JArr(<<JStr(S_hi_padded), JStr(S_b_padded)>>))
         @@ ("nested" :> JObj("x" :> JStr(S_y_padded))))

JsonInputs == Nest(Nest(Leaves)) \cup {NestedExample}

SanitizeInit ==
    /\ CacheStart
    /\ instances = <<>>
    /\ iev = [op |-> "init"]
    /\ sin \in JsonInputs
    /\ sout = <<>>
    /\ AsyncStart

\* sanitizeObject applied to the input, then to its own result
Sanitize ==
    /\ Len(sout) < MaxApplications
    /\ sout' = Append(sout, sanitizeObject(IF sout = <<>> THEN sin
                                           ELSE sout[Len(sout)]))
    /\ UNCHANGED <<breakerVars, now, cacheVars, handlerVars, sin,
                   instances, iev, asyncVars>>

\* one call of validateAndSanitizeParams on the input
Validate ==
    /\ vout = <<>>
    /\ vout' = <<validateAndSanitizeParams(sin)>>
    /\ UNCHANGED <<breakerVars, now, cacheVars, handlerVars, sin, sout,
                   instances, iev, task, tev>>

SanitizeNext == Sanitize \/ Validate

SanitizeSpec == SanitizeInit /\ [][SanitizeNext]_vars

\* b is a without its leading and trailing whitespace
IsTrimOf(a, b) ==
    /\ b # <<>> => ~IsSpace(b[1]) /\ ~IsSpace(b[Len(b)])
    /\ \E i \in 0..Len(a) :
          /\ i + Len(b) <= Len(a)
          /\ SubSeq(a, i + 1, i + Len(b)) = b
          /\ \A j \in 1..Len(a) :
                (j <= i \/ j > i + Len(b)) => IsSpace(a[j])

\* y is x normalized: strings trimmed at every depth, arrays element-wise,
\* mappings key by key, everything else the same
RECURSIVE IsNormalized(_, _)
IsNormalized(x, y) ==
    CASE x.t = "string" -> y.t = "string" /\ IsTrimOf(x.s, y.s)
      [] x.t = "array" ->
           /\ y.t = "array"
           /\ Len(y.items) = Len(x.items)
           /\ \A i \in 1..Len(x.items) : IsNormalized(x.items[i], y.items[i])
      [] x.t = "object" ->
           /\ y.t = "object"
           /\ DOMAIN y.fields = DOMAIN x.fields
           /\ \A k \in DOMAIN x.fields : IsNormalized(x.fields[k], y.fields[k])
           /\ y.proto = x.proto
      [] OTHER -> y = x

\* C28: sanitize is a recursive normalization: every string at any nesting
\* depth is trimmed of surrounding whitespace, arrays are mapped
\* element-wise keeping length and order, mappings keep exactly their key
\* set with each value sanitized, and numbers, booleans, null and undefined
\* pass through unchanged.
C28_SanitizeNormalizes ==
    Len(sout) >= 1 => IsNormalized(sin, sout[1])

\* C29: sanitize is idempotent: for every cycle-free JSON-shaped value x,
\* sanitize(sanitize(x)) equals sanitize(x).
C29_SanitizeIdempotent ==
    Len(sout) >= 2 => sout[2] = sout[1]

\* C38: validateAndSanitizeParams raises 'Parameters must be an object' for
\* every params value that is present but not an object (string, number,
\* boolean), returns an empty mapping for null or absent params, and for
\* object params returns the sanitized copy, leaving the input as it was.
C38_RejectsNonObjectParams ==
    vout # <<>> =>
        LET r == vout[1] IN
        /\ sin.t \in {"string", "number", "boolean"} =>
              r.thrown = MustBeObject
        /\ sin.t \in {"null", "undefined"} =>
              r.thrown = "" /\ r.value = JObj(<<>>)
        /\ sin.t = "object" =>
              r.thrown = "" /\ r.value = sanitizeObject(sin)

\* ------------------------------------------------ the breaker instances
\* circuit-breaker.ts:65-68: the configuration of each instance
circuitBreakers ==
    [external |-> [failureThreshold |-> 5, timeout |-> 60000],
     github   |-> [failureThreshold |-> 3, timeout |-> 30000]]

Dependencies == DOMAIN circuitBreakers

\* One object shared by both names.
InstanceOf_Shared(n) == "external"

\* circuitBreakers.<n> is an object of its own (two `new CircuitBreaker`)
InstanceOf(n) == n

\* the private fields of the instance behind a name, in a given heap
FieldsOf(heap, n) ==
    [state        |-> heap[InstanceOf(n)].state,
     failures     |-> heap[InstanceOf(n)].failures,
     lastFailTime |-> heap[InstanceOf(n)].lastFailTime]

\* the instants of the instance clock: around the two timeouts
InstanceInstants == {1, 30000, 30001, 60001, 90001}

InstanceEvent(op, n, failed) ==
    [op |-> op, name |-> n, pre |-> instances, failed |-> failed]

\* circuitBreakers[n].execute(operation), synchronous part
ExecuteThrough(n) ==
    LET i == InstanceOf(n)
        b == instances[i]
    IN  /\ b.pc = "idle"
        /\ IF GateRejects(b.state, now, b.lastFailTime,
                          circuitBreakers[i].timeout)
           THEN /\ iev' = InstanceEvent("rejected", n, iev.failed)
                /\ UNCHANGED instances
           ELSE /\ instances' = [instances EXCEPT
                                   ![i].state = AfterGate(b.state),
                                   ![i].pc = "awaiting"]
                /\ iev' = InstanceEvent("execute", n, iev.failed)
        /\ UNCHANGED <<breakerVars, now, cacheVars, handlerVars, sin, sout,
                       asyncVars>>

\* the awaited operation of the call through n resolves
ResolveThrough(n) ==
    LET i == InstanceOf(n)
        b == instances[i]
    IN  /\ b.pc = "awaiting"
        /\ instances' = [instances EXCEPT
                            ![i] = [onSuccess(b) EXCEPT !.pc = "idle"]]
        /\ iev' = InstanceEvent("resolve", n, iev.failed)
        /\ UNCHANGED <<breakerVars, now, cacheVars, handlerVars, sin, sout,
                       asyncVars>>

\* the awaited operation of the call through n rejects
RejectThrough(n) ==
    LET i == InstanceOf(n)
        b == instances[i]
    IN  /\ b.pc = "awaiting"
        /\ instances' = [instances EXCEPT
                            ![i] = [onFailure(b, now,
                                        circuitBreakers[i].failureThreshold)
                                    EXCEPT !.pc = "idle"]]
        /\ iev' = InstanceEvent("reject", n, iev.failed \cup {n})
        /\ UNCHANGED <<breakerVars, now, cacheVars, handlerVars, sin, sout,
                       asyncVars>>

InstanceTick ==
    /\ \E t \in InstanceInstants : t > now /\ now' = t
    /\ UNCHANGED <<breakerVars, cacheVars, handlerVars, utilVars>>

InstancesInit ==
    /\ CacheStart
    /\ sin = <<>>
    /\ sout = <<>>
    /\ AsyncStart
    /\ instances = [i \in Dependencies |->
                       [state |-> "CLOSED", failures |-> 0,
                        lastFailTime |-> 0, pc |-> "idle"]]
    /\ iev = [op |-> "init", name |-> "", pre |-> <<>>, failed |-> {}]

InstancesNext ==
    \/ \E n \in Dependencies : ExecuteThrough(n)
    \/ \E n \in Dependencies : ResolveThrough(n)
    \/ \E n \in Dependencies : RejectThrough(n)
    \/ InstanceTick

InstancesSpec == InstancesInit /\ [][InstancesNext]_vars

\* C30: breakers are independent: operations executed through one breaker
\* instance (external or github) never change the state, failure count or
\* last failure time of the other, so one dependency reaching OPEN never
\* causes fast-fail rejections for the other dependency.
C30_BreakersIndependent ==
    iev.op # "init" =>
        /\ \A m \in Dependencies \ {iev.name} :
              FieldsOf(instances, m) = FieldsOf(iev.pre, m)
        /\ iev.op = "rejected" => iev.name \in iev.failed

\* github fails fast while external, which has failures of its own below
\* its threshold, is still closed
C30_Witness ==
    /\ iev.op = "rejected"
    /\ iev.name = "github"
    /\ FieldsOf(instances, "github").state = "OPEN"
    /\ FieldsOf(instances, "external").state = "CLOSED"
    /\ FieldsOf(instances, "external").failures = 3

====
